---- MODULE Spec2Model ----
(***************************************************************************)
(* Variant-combination price/stock resolution of the Tokopedia product     *)
(* scraper: ProductsCollector.scrape_variant_details and its helpers       *)
(* get_available_variant_options and click_variant_button, driven against  *)
(* a product page whose variant chips, price and stock depend on the       *)
(* options currently selected on the page.                                 *)
(*                                                                         *)
(* Axis identifiers are 1..n in the key order of data["variants"]; option  *)
(* labels are 1..MaxOpts in document order; 0 stands for "nothing selected *)
(* on this axis".  A dict keyed by the first k axes is a sequence of       *)
(* length k.  Python's None is the empty sequence, a value v is <<v>>.     *)
(* discount_percent is kept in tenths of a percent (200 is 20.0).          *)
(*                                                                         *)
(* Two further specifications cover the paging loops around it:            *)
(* SpecSearch is SearchResultsCollector.scrape_search_results and          *)
(* SpecReviews is ReviewsCollector.scrape_reviews_with_pagination, each    *)
(* fed with the pages the site may show.  SpecMain is main, the driver     *)
(* of a whole run, with the calls it makes reduced to their outcomes.      *)
(***************************************************************************)
EXTENDS Integers, Sequences, FiniteSets, TLC

\* Bounds of the model: the largest number of variant axes of a product and
\* the number of option chips under each axis; the largest max_products and
\* max_pages a search is called with; the largest max_pages a review
\* collection is called with; the largest number of search URLs of a run.
MaxAxes == 2
MaxOpts == 2
MaxProducts == 3
MaxSearchPages == 3
MaxReviewPages == 3
MaxUrls == 2

VARIABLES
    page,                       \* the product page: axes and its one anomaly
    selection,                  \* the option currently selected on each axis
    variants,                   \* data["variants"]
    pc,                         \* position in the code
    combos,                     \* candidate list
    base_i,                     \* index of the base being applied
    axis_i,                     \* index of the next axis to click
    idx,                        \* index of the candidate being priced
    stock_count,
    final_price,
    original_price,
    available_variant_details,
    result,                     \* what the last call returned
    first,                      \* what the call before it returned, if any
    caller,                     \* who called scrape_variant_details
    missed,                     \* some click left another option selected
    reports,                    \* what get_available_variant_options returned
    log,                        \* the page interactions of the current call
    search,                     \* a call of scrape_search_results
    reviews,                    \* a call of scrape_reviews_with_pagination
    main                        \* a run of main

vars == <<page, selection, variants, pc, combos, base_i, axis_i, idx,
          stock_count, final_price, original_price,
          available_variant_details, result, first, caller, missed,
          reports, log, search, reviews, main>>

\* The state of the variant resolution alone.
resolver_vars == <<page, selection, variants, pc, combos, base_i, axis_i, idx,
                   stock_count, final_price, original_price,
                   available_variant_details, result, first, caller, missed,
                   reports, log>>

-----------------------------------------------------------------------------
(* The page *)

Options == 1..MaxOpts

\* The cross-product with the first list varying fastest.
RECURSIVE ProductFirstFastest(_)
ProductFirstFastest(lists) ==
    IF Len(lists) = 0 THEN << <<>> >>
    ELSE LET rest == ProductFirstFastest(Tail(lists))
             head == lists[1]
         IN  [k \in 1..(Len(rest) * Len(head)) |->
                <<head[((k - 1) % Len(head)) + 1]>>
                \o rest[((k - 1) \div Len(head)) + 1]]

\* itertools.product over a list of option lists: the first list varies
\* slowest.
RECURSIVE Product(_)
Product(lists) ==
    IF Len(lists) = 0 THEN << <<>> >>
    ELSE LET init == Product(SubSeq(lists, 1, Len(lists) - 1))
             last == lists[Len(lists)]
         IN  [k \in 1..(Len(init) * Len(last)) |->
                Append(init[((k - 1) \div Len(last)) + 1],
                       last[((k - 1) % Len(last)) + 1])]

\* Every assignment of one option to each of the n axes.
FullCombos(n) == [1..n -> Options]

\* The combinations made of first and last options only.
CornerCombos(n) == [1..n -> {1, MaxOpts}]

NoAnomaly == [type |-> "none", axis |-> 0, opt |-> 0, combo |-> <<>>, kind |-> "normal"]

\* What the page shows for one selection other than the ordinary price.
ViewKinds == {"timeout", "habis", "HABIS", "range", "range2", "nofinal",
              "fallback", "garbled", "bare", "discount", "tie", "third",
              "cheaper", "nostock", "nodigits", "roundup", "zero", "negative",
              "twonumbers"}

\* How the click on one chip goes wrong (the native click raises and the
\* scripted one goes through, both raise, the scroll before the native click
\* raises and the scripted click goes through), or the header of an axis is
\* lost.
ClickKinds == {"script", "failed", "scroll"}
AxisKinds == {"noheader", "nocontainer"}

\* What the text of one chip is when it is not its one-line label: the label
\* with a second line under it, a text that starts with "http", no text, the
\* label of the chip after it with a letter in front ("XL" before "L").
LabelKinds == {"twolines", "url", "blank", "prefixed"}

\* How the identifiers of two neighbouring axes are related when one is the
\* beginning of the other: the shorter one ("warna") heads the earlier group
\* and the longer one ("warna dasar") the later, or the other way round.
NameKinds == {"shortfirst", "longfirst"}

\* A page has at most one anomaly: a combination that is not sold (its chips
\* are disabled accordingly), a selection with a special price/stock view, a
\* chip whose click raises, an axis whose header or chip group is gone when
\* the variants are resolved, a chip whose text is not its one-line label, or
\* no variant header at all left when the variants are resolved.
\* The special view sits on a combination of first and last options.  On the
\* pages of Spec no axis identifier is part of another.
Anomalies(n) ==
    {NoAnomaly}
    \cup {[type |-> "missing", axis |-> 0, opt |-> 0, combo |-> c, kind |-> "normal"] :
            c \in (IF n = 0 THEN {} ELSE FullCombos(n))}
    \cup {[type |-> "special", axis |-> 0, opt |-> 0, combo |-> c, kind |-> k] :
            c \in (IF n = 0 THEN {} ELSE CornerCombos(n)), k \in ViewKinds}
    \cup {[type |-> "broken", axis |-> a, opt |-> o, combo |-> <<>>, kind |-> k] :
            a \in 1..n, o \in Options, k \in ClickKinds}
    \cup {[type |-> "broken", axis |-> a, opt |-> 0, combo |-> <<>>, kind |-> k] :
            a \in 1..n, k \in AxisKinds}
    \cup {[type |-> "label", axis |-> a, opt |-> o, combo |-> <<>>, kind |-> k] :
            a \in 1..n, o \in Options, k \in LabelKinds}
    \cup {[type |-> "headerless", axis |-> 0, opt |-> 0, combo |-> <<>>,
            kind |-> "normal"] : a \in 1..n}

Pages == UNION {{[n |-> n, anomaly |-> a] : a \in Anomalies(n)} : n \in 0..MaxAxes}

\* The pages two neighbouring axes of which (axis and the one after it) have
\* identifiers one of which begins with the other; the last option of the
\* later of the two is sold out.  With them, the pages without anomaly.
NamePages ==
    UNION {{[n |-> n, anomaly |-> NoAnomaly]}
           \cup {[n |-> n,
                  anomaly |-> [type |-> "names", axis |-> a, opt |-> 0,
                               combo |-> <<>>, kind |-> k]] :
                    a \in 1..(n - 1), k \in NameKinds} : n \in 0..MaxAxes}

\* The pages with one axis more than the others have, for the order of the
\* bases to show: without anomaly, and with the combination of the last
\* options not sold.  With them, the pages of fewer axes without anomaly.
OrderAxes == MaxAxes + 1

OrderPages ==
    {[n |-> n, anomaly |-> NoAnomaly] : n \in 0..OrderAxes}
    \cup {[n |-> OrderAxes,
           anomaly |-> [type |-> "missing", axis |-> 0, opt |-> 0,
                        combo |-> [a \in 1..OrderAxes |-> MaxOpts],
                        kind |-> "normal"]]}

\* A combination is sold unless it is the page's missing one or has the
\* option that is sold out.
Sold(pg, c) ==
    /\ ~(pg.anomaly.type = "missing" /\ pg.anomaly.combo = c)
    /\ ~(pg.anomaly.type = "names" /\ c[pg.anomaly.axis + 1] = MaxOpts)

\* The chip of option o under axis a is in the active (or active-selected)
\* state when some sold combination has it and agrees with what is selected
\* on the other axes.
Enabled(pg, sel, a, o) ==
    \E c \in FullCombos(pg.n) :
        /\ Sold(pg, c)
        /\ c[a] = o
        /\ \A j \in 1..pg.n : (j # a /\ sel[j] # 0) => c[j] = sel[j]

HeaderLost(pg, a) ==
    \/ pg.anomaly.type = "broken" /\ pg.anomaly.axis = a /\ pg.anomaly.kind \in AxisKinds
    \/ pg.anomaly.type = "headerless"

ClickFault(pg, a, o) ==
    IF pg.anomaly.type = "broken" /\ pg.anomaly.axis = a /\ pg.anomaly.opt = o
    THEN pg.anomaly.kind ELSE "none"

\* The identifier of axis a is the beginning of the identifier of axis h.
BeginsName(pg, h, a) ==
    /\ pg.anomaly.type = "names"
    /\ \/ pg.anomaly.kind = "shortfirst" /\ a = pg.anomaly.axis /\ h = a + 1
       \/ pg.anomaly.kind = "longfirst" /\ h = pg.anomaly.axis /\ a = h + 1

\* for h in headers: if f"pilih {variant_type.lower()}" in h.text.strip().lower():
\* the first header, in document order, whose text has "pilih " and the
\* identifier in it.
Header(pg, variant_type) ==
    LET found == {h \in 1..pg.n : h = variant_type \/ BeginsName(pg, h, variant_type)}
    IN  CHOOSE h \in found : \A g \in found : h <= g

-----------------------------------------------------------------------------
(* Chip texts *)

\* Texts of chips are numbered.  The one-line label of chip o is o; the
\* two-line text whose first line is that label is MaxOpts + o; the text of
\* chip o that starts with "http" is 2 * MaxOpts + o; the empty text is 0.
\* The text of chip o made of a letter and the label of the chip after it
\* (of the first chip, for the last one) is 3 * MaxOpts + o.
TwoLines(o) == MaxOpts + o
Url(o) == 2 * MaxOpts + o
Blank == 0
Prefixed(o) == 3 * MaxOpts + o

\* The label a prefixed text ends with.
Suffix(t) == ((t - 3 * MaxOpts) % MaxOpts) + 1

\* txt.split("\n")[0].strip()
FirstLine(t) == IF t > MaxOpts /\ t <= 2 * MaxOpts THEN t - MaxOpts ELSE t

\* txt.startswith("http")
StartsWithHttp(t) == t > 2 * MaxOpts /\ t <= 3 * MaxOpts

\* txt == variant_value
Equals(txt, v) == v = txt

\* variant_value in txt or txt == variant_value
Contains(txt, v) ==
    \/ v = txt
    \/ v = FirstLine(txt)
    \/ v = Blank
    \/ txt > 3 * MaxOpts /\ v = Suffix(txt)

\* b.text.strip() of the chip of option o under axis a.
ChipText(pg, a, o) ==
    IF pg.anomaly.type = "label" /\ pg.anomaly.axis = a /\ pg.anomaly.opt = o
    THEN CASE pg.anomaly.kind = "twolines" -> TwoLines(o)
           [] pg.anomaly.kind = "url" -> Url(o)
           [] pg.anomaly.kind = "prefixed" -> Prefixed(o)
           [] OTHER -> Blank
    ELSE o

\* The chips of an axis, in document order.
Chips == [o \in 1..MaxOpts |-> o]

\* The option buttons found under each variant title by the initial scan:
\* the text of every chip that has one.
ScanVariants(pg) ==
    [a \in 1..pg.n |->
        SelectSeq([o \in 1..MaxOpts |-> ChipText(pg, a, o)],
                  LAMBDA t : t # Blank)]

-----------------------------------------------------------------------------
(* Texts shown by the page *)

NoElement == [found |-> FALSE, rp |-> FALSE, hyphen |-> FALSE, wellformed |-> FALSE, value |-> 0]
\* "Rp100.000"
PriceText(v) == [found |-> TRUE, rp |-> TRUE, hyphen |-> FALSE, wellformed |-> TRUE, value |-> v]
\* "Rp80.000 - Rp100.000"
RangeText == [found |-> TRUE, rp |-> TRUE, hyphen |-> TRUE, wellformed |-> FALSE, value |-> 0]
\* "100000"
BareText(v) == [found |-> TRUE, rp |-> FALSE, hyphen |-> FALSE, wellformed |-> TRUE, value |-> v]
\* "Rp-5.000"
NegativeText == [found |-> TRUE, rp |-> TRUE, hyphen |-> TRUE, wellformed |-> TRUE, value |-> 0 - 5000]
\* "Rp -"
GarbledText == [found |-> TRUE, rp |-> TRUE, hyphen |-> FALSE, wellformed |-> FALSE, value |-> 0]

Word(w) == [word |-> w, num |-> 0 - 1]
Num(n) == [word |-> "", num |-> n]
StockText(toks) == [found |-> TRUE, tokens |-> toks]
NoStockLabel == [found |-> FALSE, tokens |-> <<>>]

\* str.lower() on the words a stock label is made of.
Lower(w) ==
    CASE w = "Habis" -> "habis"
      [] w = "HABIS" -> "habis"
      [] w = "Stok" -> "stok"
      [] w = "Sisa" -> "sisa"
      [] OTHER -> w

RECURSIVE Weight(_)
Weight(sel) == IF Len(sel) = 0 THEN 0 ELSE Head(sel) + 10 * Weight(Tail(sel))

\* The ordinary view: the price depends on the selection, five in stock, no
\* slashed price.
NormalView(sel) ==
    [present |-> TRUE,
     stock |-> StockText(<<Word("Stok"), Word(":"), Num(5)>>),
     final |-> <<PriceText(100000 + 1000 * Weight(sel)), NoElement>>,
     orig |-> <<NoElement, NoElement, NoElement, NoElement>>]

KindView(kind, sel) ==
    LET nv == NormalView(sel) IN
    CASE kind = "timeout" -> [nv EXCEPT !.present = FALSE]
      [] kind = "habis" -> [nv EXCEPT !.stock = StockText(<<Word("Stok"), Word("habis")>>)]
      [] kind = "HABIS" -> [nv EXCEPT !.stock = StockText(<<Word("Stok"), Word("Habis"), Num(0)>>)]
      [] kind = "range" -> [nv EXCEPT !.final = <<RangeText, PriceText(100000)>>]
      [] kind = "range2" -> [nv EXCEPT !.final = <<NoElement, RangeText>>]
      [] kind = "nofinal" -> [nv EXCEPT !.final = <<NoElement, NoElement>>]
      [] kind = "fallback" -> [nv EXCEPT !.final = <<NoElement, PriceText(95000)>>]
      [] kind = "garbled" -> [nv EXCEPT !.final = <<GarbledText, PriceText(95000)>>]
      [] kind = "bare" -> [nv EXCEPT !.final = <<BareText(100000), NoElement>>]
      [] kind = "discount" ->
            [nv EXCEPT !.final = <<PriceText(80000), NoElement>>,
                       !.orig = <<PriceText(100000), NoElement, NoElement, NoElement>>]
      [] kind = "tie" ->
            [nv EXCEPT !.final = <<PriceText(150000), NoElement>>,
                       !.orig = <<NoElement, PriceText(160000), NoElement, NoElement>>]
      [] kind = "third" ->
            [nv EXCEPT !.final = <<PriceText(90000), NoElement>>,
                       !.orig = <<GarbledText, BareText(110000), PriceText(120000), PriceText(130000)>>]
      [] kind = "cheaper" ->
            [nv EXCEPT !.final = <<PriceText(100000), NoElement>>,
                       !.orig = <<PriceText(90000), NoElement, NoElement, NoElement>>]
      [] kind = "nostock" -> [nv EXCEPT !.stock = NoStockLabel]
      [] kind = "nodigits" -> [nv EXCEPT !.stock = StockText(<<Word("Stok"), Word("tersedia")>>)]
      [] kind = "roundup" ->
            [nv EXCEPT !.final = <<PriceText(50000), NoElement>>,
                       !.orig = <<NoElement, NoElement, NoElement, PriceText(150000)>>]
      [] kind = "zero" ->
            [nv EXCEPT !.final = <<PriceText(100000), NoElement>>,
                       !.orig = <<PriceText(0), PriceText(120000), NoElement, NoElement>>]
      [] kind = "negative" -> [nv EXCEPT !.final = <<NegativeText, NoElement>>]
      [] kind = "twonumbers" ->
            [nv EXCEPT !.stock = StockText(<<Word("Sisa"), Num(3), Word("dari"), Num(10)>>)]
      [] OTHER -> nv

\* What the page shows under the selection sel.
View(pg, sel) ==
    IF pg.anomaly.type = "special" /\ pg.anomaly.combo = sel
    THEN KindView(pg.anomaly.kind, sel)
    ELSE NormalView(sel)

-----------------------------------------------------------------------------
(* get_available_variant_options and click_variant_button *)

\* The texts of the buttons, every one of them and in full.
TextsOf(pg, a, buttons) == [k \in 1..Len(buttons) |-> ChipText(pg, a, buttons[k])]

\* The loop over the buttons found: the first line of every text that is
\* not empty and does not start with "http".
LabelsOf(pg, a, buttons) ==
    LET texts == [k \in 1..Len(buttons) |-> ChipText(pg, a, buttons[k])]
        kept == SelectSeq(texts, LAMBDA t : t # Blank /\ ~StartsWithHttp(t))
    IN  [k \in 1..Len(kept) |-> FirstLine(kept[k])]

\* Every chip under the header, whatever its state.
GetAllVariantOptions(pg, sel, variant_type) ==
    IF HeaderLost(pg, variant_type) THEN <<>>
    ELSE LabelsOf(pg, Header(pg, variant_type), Chips)

\* The active chips alone, without the active-selected one.
GetUnselectedVariantOptions(pg, sel, variant_type) ==
    IF HeaderLost(pg, variant_type) THEN <<>>
    ELSE LET target == Header(pg, variant_type) IN
         LabelsOf(pg, target,
                  SelectSeq(Chips, LAMBDA o : Enabled(pg, sel, target, o)
                                              /\ sel[target] # o))

\* The labels of the active and active-selected chips under the header
\* found for variant_type, in document order; [] when the header or the chip
\* group is not found.
GetAvailableVariantOptions(pg, sel, variant_type) ==
    IF HeaderLost(pg, variant_type) THEN <<>>
    ELSE LET target == Header(pg, variant_type) IN
         LabelsOf(pg, target,
                  SelectSeq(Chips, LAMBDA o : Enabled(pg, sel, target, o)))

\* The page after a click that went through: a disabled chip ignores it.
Clicked(pg, sel, a, o) ==
    IF Enabled(pg, sel, a, o) THEN [sel EXCEPT ![a] = o] ELSE sel

\* The first button under the header whose text contains variant_value; 0
\* when there is none.
Matching(pg, a, variant_value) ==
    LET found == {o \in Options : Contains(ChipText(pg, a, o), variant_value)}
    IN  IF found = {} THEN 0
        ELSE CHOOSE o \in found : \A p \in found : o <= p

\* The button the value was taken from: the one whose text, or the first
\* line of whose text, is variant_value; 0 when there is none.
Requested(pg, a, variant_value) ==
    LET found == {o \in Options :
                    \/ Equals(ChipText(pg, a, o), variant_value)
                    \/ Equals(FirstLine(ChipText(pg, a, o)), variant_value)}
    IN  IF found = {} THEN 0
        ELSE CHOOSE o \in found : \A p \in found : o <= p

\* A call that clicks nothing and returns False.
NoClick(sel, target) ==
    [ok |-> FALSE, group |-> target, button |-> 0, native |-> 0, script |-> 0,
     sel |-> sel]

\* click_variant_button without the except branch that clicks by script: a
\* native click that raises makes the call return False.
ClickVariantButtonWithoutRetry(pg, sel, variant_type, variant_value) ==
    IF HeaderLost(pg, variant_type)
    THEN NoClick(sel, 0)
    ELSE LET target == Header(pg, variant_type)
             b == Matching(pg, target, variant_value) IN
         IF b = 0 THEN NoClick(sel, target)
         ELSE LET fault == ClickFault(pg, target, b) IN
              [ok |-> fault = "none", group |-> target, button |-> b,
               native |-> IF fault = "scroll" THEN 0 ELSE 1, script |-> 0,
               sel |-> IF fault = "none" THEN Clicked(pg, sel, target, b) ELSE sel]

\* click_variant_button: the return value, the group and the button the
\* clicks went to (0 when none was tried), how many native and how many
\* scripted clicks were attempted, and the selection it leaves.
ClickVariantButton(pg, sel, variant_type, variant_value) ==
    IF HeaderLost(pg, variant_type)
    THEN NoClick(sel, 0)
    ELSE LET target == Header(pg, variant_type)
             b == Matching(pg, target, variant_value) IN
         IF b = 0 THEN NoClick(sel, target)
         ELSE LET fault == ClickFault(pg, target, b) IN
              [ok |-> fault # "failed", group |-> target, button |-> b,
               native |-> IF fault = "scroll" THEN 0 ELSE 1,
               script |-> IF fault = "none" THEN 0 ELSE 1,
               sel |-> IF fault = "failed" THEN sel
                       ELSE Clicked(pg, sel, target, b)]

-----------------------------------------------------------------------------
(* Reading stock and prices *)

\* "habis" in stxt, without lower().
OutOfStockCaseSensitive(stock) ==
    \E k \in 1..Len(stock.tokens) : stock.tokens[k].word = "habis"

\* "habis" in stxt.lower()
OutOfStock(stock) ==
    \E k \in 1..Len(stock.tokens) : Lower(stock.tokens[k].word) = "habis"

\* The last run of digits, 0 without one.
RECURSIVE LastNumber(_)
LastNumber(tokens) ==
    IF Len(tokens) = 0 THEN 0
    ELSE IF tokens[Len(tokens)].num >= 0 THEN tokens[Len(tokens)].num
    ELSE LastNumber(SubSeq(tokens, 1, Len(tokens) - 1))

\* re.search(r"(\d+)", stxt): the first run of digits, 0 without one.
RECURSIVE FirstNumber(_)
FirstNumber(tokens) ==
    IF Len(tokens) = 0 THEN 0
    ELSE IF Head(tokens).num >= 0 THEN Head(tokens).num
    ELSE FirstNumber(Tail(tokens))

\* The final-price selectors when a range is skipped like a missing element.
RECURSIVE FinalPriceSkippingRange(_, _)
FinalPriceSkippingRange(final, i) ==
    IF i > Len(final) THEN [price |-> <<>>, tried |-> Len(final)]
    ELSE LET pe == final[i] IN
         IF pe.found /\ pe.rp /\ ~pe.hyphen /\ pe.wellformed
         THEN [price |-> <<pe.value>>, tried |-> i]
         ELSE FinalPriceSkippingRange(final, i + 1)

\* The final-price selectors when any text with "Rp" is taken for a price.
RECURSIVE FinalPriceIgnoringHyphen(_, _)
FinalPriceIgnoringHyphen(final, i) ==
    IF i > Len(final) THEN [price |-> <<>>, tried |-> Len(final)]
    ELSE LET pe == final[i] IN
         IF pe.found /\ pe.rp /\ pe.wellformed
         THEN [price |-> <<pe.value>>, tried |-> i]
         ELSE FinalPriceIgnoringHyphen(final, i + 1)

\* The final-price selectors from the i-th on: the price found (or None) and
\* the index of the last selector consulted.
RECURSIVE FinalPriceFrom(_, _)
FinalPriceFrom(final, i) ==
    IF i > Len(final) THEN [price |-> <<>>, tried |-> Len(final)]
    ELSE LET pe == final[i] IN
         IF ~pe.found THEN FinalPriceFrom(final, i + 1)
         ELSE IF pe.rp /\ ~pe.hyphen
              THEN IF pe.wellformed
                   THEN [price |-> <<pe.value>>, tried |-> i]
                   ELSE FinalPriceFrom(final, i + 1)
         ELSE IF pe.hyphen
              THEN [price |-> <<>>, tried |-> i]
         ELSE FinalPriceFrom(final, i + 1)

\* The original-price selectors from the i-th on.
RECURSIVE OriginalPriceFrom(_, _)
OriginalPriceFrom(orig, i) ==
    IF i > Len(orig) THEN [price |-> <<>>, tried |-> Len(orig)]
    ELSE LET pe == orig[i] IN
         IF pe.found /\ pe.rp /\ pe.wellformed
         THEN [price |-> <<pe.value>>, tried |-> i]
         ELSE OriginalPriceFrom(orig, i + 1)

\* Truncation to one decimal place.
TruncTenths(num, den) == (1000 * num) \div den

\* round(x, 1) of x = 100 * num / den, in tenths: the nearest tenth, and the
\* even one when x lies exactly halfway between two.
RoundTenths(num, den) ==
    LET q == (1000 * num) \div den
        r == (1000 * num) % den
    IN  IF 2 * r < den THEN q
        ELSE IF 2 * r > den THEN q + 1
        ELSE IF q % 2 = 0 THEN q ELSE q + 1

DiscountPercent(final, original) ==
    IF original # 0 /\ original > final
    THEN RoundTenths(original - final, original)
    ELSE 0

-----------------------------------------------------------------------------
(* scrape_product_details and scrape_variant_details *)

\* No call of the search or of the review collection is under way.
NoCall == [pc |-> "off"]

\* One page interaction: the candidate it belongs to (0 before the pricing
\* loop), the axis or selector, the option, how it went, and the selection
\* on the page when it was over.
Ev(op, cand, axis, value, ok, sel) ==
    [op |-> op, cand |-> cand, axis |-> axis, value |-> value, ok |-> ok,
     sel |-> sel]

\* The head of the pricing loop at candidate i.
LoopFrom(i, cs) == IF i <= Len(cs) THEN "click" ELSE "return"

\* break in the place of continue.
Break(i, cs) == "return"

\* continue: on to the candidate after i.
Continue(i, cs) == LoopFrom(i + 1, cs)

\* The state before the product pg is scraped.
InitOn(pg) ==
    /\ page = pg
    /\ caller \in {"scrape_product_details", "direct"}
    /\ pc = (IF caller = "direct" THEN "resolve" ELSE "product")
    /\ variants = (IF caller = "direct" THEN ScanVariants(page) ELSE <<>>)
    /\ selection = [a \in 1..page.n |-> 0]
    /\ combos = <<>>
    /\ base_i = 1
    /\ axis_i = 1
    /\ idx = 1
    /\ stock_count = 0
    /\ final_price = <<>>
    /\ original_price = <<>>
    /\ available_variant_details = <<>>
    /\ result = <<>>
    /\ first = <<>>
    /\ missed = FALSE
    /\ reports = <<>>
    /\ log = <<>>
    /\ search = NoCall
    /\ reviews = NoCall
    /\ main = NoCall

Init == \E pg \in Pages : InitOn(pg)

\* The resolver called for every product.
CallsResolverAlways(vs) == TRUE

\* if data["variants"]: the resolver is called only for a product with
\* variants.
CallsResolver(vs) == Len(vs) > 0

\* scrape_product_details: scan the variant titles, and resolve the
\* combinations only when some variant was found.
ScrapeProductDetails ==
    /\ pc = "product"
    /\ variants' = ScanVariants(page)
    /\ pc' = (IF CallsResolver(variants') THEN "resolve" ELSE "done")
    /\ UNCHANGED <<main, search, reviews, page, selection, combos, base_i, axis_i, idx, stock_count,
                   final_price, original_price, available_variant_details,
                   result, first, caller, missed, reports, log>>

\* Entry of scrape_variant_details: no keys, one key, or several.
Enter ==
    /\ pc = "resolve"
    /\ available_variant_details' = <<>>
    /\ log' = Append(log, Ev("call", 0, 0, 0, TRUE, selection))
    /\ IF Len(variants) = 0
       THEN /\ pc' = "done"
            /\ result' = <<>>
       ELSE /\ pc' = (IF Len(variants) = 1 THEN "single" ELSE "base")
            /\ UNCHANGED result
    /\ UNCHANGED <<main, search, reviews, page, selection, variants, combos, base_i, axis_i, idx,
                   stock_count, final_price, original_price, first, caller,
                   missed, reports>>

\* One axis: its live options, one singleton combination each.
SingleAxis ==
    /\ pc = "single"
    /\ LET available == GetAvailableVariantOptions(page, selection, 1) IN
        /\ combos' = [k \in 1..Len(available) |-> <<available[k]>>]
        /\ reports' = Append(reports, [base |-> <<>>, sel |-> selection,
                                       opts |-> available])
        /\ log' = Append(log, Ev("query", 0, 1, 0, TRUE, selection))
        /\ idx' = 1
        /\ axis_i' = 1
        /\ pc' = LoopFrom(1, combos')
    /\ UNCHANGED <<main, search, reviews, page, selection, variants, base_i, stock_count, final_price,
                   original_price, available_variant_details, result, first,
                   caller, missed>>

first_combos == Product(SubSeq(variants, 1, Len(variants) - 1))

\* A click for the last axis of the combination alone.
ClicksLastAxisOnly(pg, sel, combo, a) == a = Len(combo)

\* A click only for an axis whose requested option is not the selected one.
ClicksChangedOnly(pg, sel, combo, a) == sel[a] # Matching(pg, a, combo[a])

\* for vt, vv in combo.items(): click_variant_button(vt, vv) is called for
\* every axis of the combination, whatever is selected on the page.
ClickIssued(pg, sel, combo, a) == TRUE

\* The call of click_variant_button for axis a of a combination.
ClickFor(pg, sel, combo, a) ==
    IF ClickIssued(pg, sel, combo, a)
    THEN ClickVariantButton(pg, sel, a, combo[a])
    ELSE [ok |-> TRUE, group |-> 0, button |-> 0, native |-> 0, script |-> 0,
          sel |-> sel]

\* The loop over the items of a combination left at the first click that
\* returns False.
ClicksDoneOnFailure(ok, a, combo) == a = Len(combo) \/ ~ok

\* for vt, vv in combo.items(): the loop is over after the click of the last
\* axis and not before, whatever click_variant_button returned.
ClicksDone(ok, a, combo) == a = Len(combo)

\* Applying a base: one click per axis of the base.
ApplyBase ==
    /\ pc = "base"
    /\ LET base == first_combos[base_i]
           issued == ClickIssued(page, selection, base, axis_i)
           c == ClickFor(page, selection, base, axis_i) IN
        /\ selection' = c.sel
        /\ missed' = (missed \/ (issued /\ c.sel[axis_i] # Requested(page, axis_i, base[axis_i])))
        /\ log' = (IF issued
                   THEN Append(log, Ev("click", 0, axis_i, base[axis_i], c.ok, c.sel))
                   ELSE log)
        /\ IF ClicksDone(c.ok, axis_i, base)
           THEN pc' = "query" /\ UNCHANGED axis_i
           ELSE pc' = "base" /\ axis_i' = axis_i + 1
    /\ UNCHANGED <<main, search, reviews, page, variants, combos, base_i, idx, stock_count,
                   final_price, original_price, available_variant_details,
                   result, first, caller, reports>>

\* The options of the last variant as advertised by the initial scan.
AdvertisedLastOptions(pg, sel, vs) == vs[Len(vs)]

\* The options of the last variant, queried live once a base is applied.
LastOptions(pg, sel, vs) == GetAvailableVariantOptions(pg, sel, Len(vs))

\* The candidates of one base, one per live option of the last variant.
QueryLastVariant ==
    /\ pc = "query"
    /\ LET base == first_combos[base_i]
           last_opts == LastOptions(page, selection, variants) IN
        /\ combos' = combos \o [k \in 1..Len(last_opts) |-> Append(base, last_opts[k])]
        /\ reports' = Append(reports, [base |-> base, sel |-> selection,
                                       opts |-> last_opts])
        /\ log' = Append(log, Ev("query", 0, Len(variants), 0, TRUE, selection))
        /\ IF base_i = Len(first_combos)
           THEN /\ pc' = LoopFrom(1, combos')
                /\ UNCHANGED base_i
           ELSE /\ pc' = "base"
                /\ base_i' = base_i + 1
        /\ axis_i' = 1
        /\ idx' = 1
    /\ UNCHANGED <<main, search, reviews, page, selection, variants, stock_count, final_price,
                   original_price, available_variant_details, result, first,
                   caller, missed>>

\* The clicks of one candidate, one per axis, whatever each returns.
ClickCombo ==
    /\ pc = "click"
    /\ LET combo == combos[idx]
           issued == ClickIssued(page, selection, combo, axis_i)
           c == ClickFor(page, selection, combo, axis_i) IN
        /\ selection' = c.sel
        /\ missed' = (missed \/ (issued /\ c.sel[axis_i] # Requested(page, axis_i, combo[axis_i])))
        /\ log' = (IF issued
                   THEN Append(log, Ev("click", idx, axis_i, combo[axis_i], c.ok, c.sel))
                   ELSE log)
        /\ IF ClicksDone(c.ok, axis_i, combo)
           THEN pc' = "wait" /\ axis_i' = 1
           ELSE pc' = "click" /\ axis_i' = axis_i + 1
    /\ UNCHANGED <<main, search, reviews, page, variants, combos, base_i, idx, stock_count,
                   final_price, original_price, available_variant_details,
                   result, first, caller, reports>>

\* The bounded wait for the price element; on a timeout, the next candidate.
WaitPrice ==
    /\ pc = "wait"
    /\ LET view == View(page, selection) IN
        /\ log' = Append(log, Ev("wait", idx, 0, 0, view.present, selection))
        /\ IF ~view.present
           THEN idx' = idx + 1 /\ pc' = Continue(idx, combos)
           ELSE pc' = "stock" /\ UNCHANGED idx
    /\ UNCHANGED <<main, search, reviews, page, selection, variants, combos, base_i, axis_i,
                   stock_count, final_price, original_price,
                   available_variant_details, result, first, caller, missed,
                   reports>>

\* The stock label: out of stock is the next candidate, else the count; a
\* label that cannot be read counts 0.
ReadStock ==
    /\ pc = "stock"
    /\ LET view == View(page, selection) IN
        /\ log' = Append(log, Ev("stock", idx, 0, 0, view.stock.found, selection))
        /\ IF view.stock.found /\ OutOfStock(view.stock)
           THEN /\ idx' = idx + 1
                /\ pc' = Continue(idx, combos)
                /\ stock_count' = 0
           ELSE /\ pc' = "final"
                /\ stock_count' = (IF view.stock.found
                                   THEN FirstNumber(view.stock.tokens) ELSE 0)
                /\ UNCHANGED idx
    /\ UNCHANGED <<main, search, reviews, page, selection, variants, combos, base_i, axis_i,
                   final_price, original_price, available_variant_details,
                   result, first, caller, missed, reports>>

\* The final price, from the first selector that yields one.
ReadFinalPrice ==
    /\ pc = "final"
    /\ LET r == FinalPriceFrom(View(page, selection).final, 1) IN
        /\ final_price' = r.price
        /\ log' = log \o [k \in 1..r.tried |->
                            Ev("final", idx, k, 0,
                               View(page, selection).final[k].found, selection)]
    /\ pc' = "orig"
    /\ UNCHANGED <<main, search, reviews, page, selection, variants, combos, base_i, axis_i, idx,
                   stock_count, original_price, available_variant_details,
                   result, first, caller, missed, reports>>

\* The slashed price, from the first selector that yields one.
ReadOriginalPrice ==
    /\ pc = "orig"
    /\ LET r == OriginalPriceFrom(View(page, selection).orig, 1) IN
        /\ original_price' = r.price
        /\ log' = log \o [k \in 1..r.tried |->
                            Ev("orig", idx, k, 0,
                               View(page, selection).orig[k].found, selection)]
    /\ pc' = "record"
    /\ UNCHANGED <<main, search, reviews, page, selection, variants, combos, base_i, axis_i, idx,
                   stock_count, final_price, available_variant_details,
                   result, first, caller, missed, reports>>

\* The entry of a priced candidate.
EntryOf(combo, final, original, stock) ==
    [variant_options |-> combo,
     final_price |-> final,
     original_price |-> original,
     stock |-> stock,
     discount_percent |-> DiscountPercent(final, original)]

\* An entry for every candidate, priced or not.
RecordedAlways(details, combo, final, original, stock) ==
    Append(details,
           EntryOf(combo,
                   IF final = <<>> THEN 0 ELSE final[1],
                   IF original = <<>> THEN 0 ELSE original[1],
                   stock))

\* The entry put in front of the list.
RecordedInFront(details, combo, final, original, stock) ==
    IF final # <<>>
    THEN <<EntryOf(combo, final[1],
                   IF original = <<>> THEN final[1] ELSE original[1],
                   stock)>> \o details
    ELSE details

\* The original price left at 0 when none was read.
RecordedWithoutDefault(details, combo, final, original, stock) ==
    IF final # <<>>
    THEN Append(details,
                EntryOf(combo, final[1],
                        IF original = <<>> THEN 0 ELSE original[1],
                        stock))
    ELSE details

\* With a final price the entry is appended, the original price defaulting
\* to the final one; without one the candidate is dropped.
Recorded(details, combo, final, original, stock) ==
    IF final # <<>>
    THEN Append(details,
                EntryOf(combo, final[1],
                        IF original = <<>> THEN final[1] ELSE original[1],
                        stock))
    ELSE details

RecordEntry ==
    /\ pc = "record"
    /\ available_variant_details' =
          Recorded(available_variant_details, combos[idx], final_price,
                   original_price, stock_count)
    /\ log' = (IF available_variant_details' # available_variant_details
               THEN Append(log, Ev("append", idx, 0, 0, TRUE, selection))
               ELSE log)
    /\ idx' = idx + 1
    /\ pc' = LoopFrom(idx + 1, combos)
    /\ UNCHANGED <<main, search, reviews, page, selection, variants, combos, base_i, axis_i,
                   stock_count, final_price, original_price, result, first,
                   caller, missed, reports>>

\* return available_variant_details
Return ==
    /\ pc = "return"
    /\ result' = available_variant_details
    /\ pc' = "done"
    /\ UNCHANGED <<main, search, reviews, page, selection, variants, combos, base_i, axis_i, idx,
                   stock_count, final_price, original_price,
                   available_variant_details, first, caller, missed, reports,
                   log>>

\* A second direct call on the same page, from the selection the first one
\* left.
ResolveAgain ==
    /\ pc = "done"
    /\ caller = "direct"
    /\ first = <<>>
    /\ first' = <<result>>
    /\ pc' = "resolve"
    /\ combos' = <<>>
    /\ base_i' = 1
    /\ axis_i' = 1
    /\ idx' = 1
    /\ stock_count' = 0
    /\ final_price' = <<>>
    /\ original_price' = <<>>
    /\ reports' = <<>>
    /\ log' = <<>>
    /\ UNCHANGED <<main, search, reviews, page, selection, variants, available_variant_details, result,
                   caller, missed>>

Next ==
    \/ ScrapeProductDetails
    \/ Enter
    \/ SingleAxis
    \/ ApplyBase
    \/ QueryLastVariant
    \/ ClickCombo
    \/ WaitPrice
    \/ ReadStock
    \/ ReadFinalPrice
    \/ ReadOriginalPrice
    \/ RecordEntry
    \/ Return
    \/ ResolveAgain

Spec == Init /\ [][Next]_vars

\* The pages on which a step of the resolution fails: the price of the
\* combination of the first options does not show up, or is out of stock,
\* or has no final price, or a range; the combination of the last options
\* is not sold; the first chip of the first axis cannot be clicked; the
\* header of the first axis is not found.  With them, the pages without
\* anomaly.
LivePages ==
    {pg \in Pages :
        LET a == pg.anomaly IN
        \/ a.type = "none"
        \/ /\ a.type = "special"
           /\ a.kind \in {"timeout", "habis", "nofinal", "range"}
           /\ a.combo = [x \in 1..pg.n |-> 1]
        \/ a.type = "missing" /\ a.combo = [x \in 1..pg.n |-> MaxOpts]
        \/ a.type = "broken" /\ a.axis = 1 /\ a.opt = 1 /\ a.kind = "failed"
        \/ a.type = "broken" /\ a.axis = 1 /\ a.kind = "noheader"}

InitLive == \E pg \in LivePages : InitOn(pg)

\* Every click, read and wait returns within its timeout, so a step that can
\* be taken is taken.
SpecLive == InitLive /\ [][Next]_vars /\ WF_vars(Next)

\* What is returned when an exception is caught with the list handed back as
\* far as it got.
OnExceptionPartial(details) == details

\* except Exception: return []
OnException(details) == <<>>

\* An exception escapes the handling of the step the call is at (a print to
\* a pipe that was closed, data without "variants"): the handler around the
\* whole body returns.
Raise ==
    /\ pc \in {"resolve", "single", "base", "query", "click", "wait", "stock",
                "final", "orig", "record", "return"}
    /\ result' = OnException(available_variant_details)
    /\ log' = Append(log, Ev("raise", IF pc \in {"resolve", "single", "base", "query"}
                                      THEN 0 ELSE idx,
                             0, 0, FALSE, selection))
    /\ pc' = "done"
    /\ UNCHANGED <<main, search, reviews, page, selection, variants, combos, base_i, axis_i, idx,
                   stock_count, final_price, original_price,
                   available_variant_details, first, caller, missed, reports>>

NextRaise ==
    \/ Next
    \/ Raise

\* The resolution with exceptions that escape, on the pages of SpecLive.
SpecRaise == InitLive /\ [][NextRaise]_vars

\* The same resolution on the pages with related axis identifiers.
InitNames == \E pg \in NamePages : InitOn(pg)

SpecNames == InitNames /\ [][Next]_vars

\* The same resolution on the pages with one axis more.
InitOrder == \E pg \in OrderPages : InitOn(pg)

SpecOrder == InitOrder /\ [][Next]_vars

-----------------------------------------------------------------------------
(* scrape_search_results *)

\* A title is kept when its text has more than this many characters.
MinTitleLen == 5

NoTitle == [found |-> FALSE, len |-> 0, text |-> ""]
TitleText(n, t) == [found |-> TRUE, len |-> n, text |-> t]

\* The texts under the title selectors of a product card: a title under the
\* first selector, a title under the third one only, a text too short to be
\* a title, no title element at all.
Card(kind) ==
    CASE kind = "titled" -> <<TitleText(14, "Kaos Polo Pria"), NoTitle, NoTitle>>
      [] kind = "third" -> <<NoTitle, TitleText(4, "Polo"), TitleText(11, "Polo Shirt ")>>
      [] kind = "short" -> <<TitleText(4, "Polo"), NoTitle, NoTitle>>
      [] OTHER -> <<NoTitle, NoTitle, NoTitle>>

\* The card lists a result page may show.
CardLists ==
    {<<>>,
     <<"titled">>,
     <<"short">>,
     <<"untitled", "third">>,
     <<"titled", "short", "titled">>,
     <<"titled", "third", "titled">>}

\* A result page: whether a product link appears within the wait, whether
\* the search-info element does, and the product cards found.
ResultPages ==
    {[anchor |-> FALSE, info |-> TRUE, cards |-> <<>>],
     [anchor |-> TRUE, info |-> FALSE, cards |-> <<"titled">>]}
    \cup {[anchor |-> TRUE, info |-> TRUE, cards |-> c] : c \in CardLists}

\* extract_product_info, its title: the first text longer than MinTitleLen,
\* "N/A" without one.
RECURSIVE TitleFrom(_, _)
TitleFrom(texts, i) ==
    IF i > Len(texts) THEN "N/A"
    ELSE IF texts[i].found /\ texts[i].len > MinTitleLen THEN texts[i].text
    ELSE TitleFrom(texts, i + 1)

\* The record of one card; page and position stand for its product_url.
ExtractProductInfo(kind, page_no, pos) ==
    [title |-> TitleFrom(Card(kind), 1), page |-> page_no, pos |-> pos]

\* Every record kept, whatever its title.
KeepsAll(info) == TRUE

\* info["title"] != "N/A"
Keeps(info) == info.title # "N/A"

\* min(len(products), remaining)
ToScrape(products, all_data, max_products) ==
    IF Len(products) < max_products - Len(all_data)
    THEN Len(products) ELSE max_products - Len(all_data)

\* The loop over products[:to_scrape] from index i on, total records being
\* held so far: the records it adds to page_data.
RECURSIVE PageDataFrom(_, _, _, _, _, _)
PageDataFrom(products, i, to_scrape, total, max_products, page_no) ==
    IF i > to_scrape THEN <<>>
    ELSE LET info == ExtractProductInfo(products[i], page_no, i) IN
         IF Keeps(info)
         THEN IF total + 1 >= max_products THEN <<info>>
              ELSE <<info>> \o PageDataFrom(products, i + 1, to_scrape, total + 1,
                                            max_products, page_no)
         ELSE PageDataFrom(products, i + 1, to_scrape, total, max_products, page_no)

\* The page limit left out of the loop condition.
WhileProductsOnly(s) == Len(s.all_data) < s.max_products

\* while current_page <= max_pages and len(all_data) < max_products
WhileCondition(s) ==
    s.current_page <= s.max_pages /\ Len(s.all_data) < s.max_products

\* No product page is being resolved.
ResolverOff ==
    /\ page = [n |-> 0, anomaly |-> NoAnomaly]
    /\ caller = "direct"
    /\ pc = "off"
    /\ variants = <<>>
    /\ selection = <<>>
    /\ combos = <<>>
    /\ base_i = 1
    /\ axis_i = 1
    /\ idx = 1
    /\ stock_count = 0
    /\ final_price = <<>>
    /\ original_price = <<>>
    /\ available_variant_details = <<>>
    /\ result = <<>>
    /\ first = <<>>
    /\ missed = FALSE
    /\ reports = <<>>
    /\ log = <<>>

InitSearch ==
    /\ ResolverOff
    /\ reviews = NoCall
    /\ main = NoCall
    /\ \E mp \in 0..MaxProducts, pg \in 0..MaxSearchPages :
          search = [pc |-> "loop", max_products |-> mp, max_pages |-> pg,
                    current_page |-> 1, all_data |-> <<>>, shown |-> <<>>]

\* One pass of the loop: load the page, wait for a product link, read the
\* filters on the first page, find the cards, collect up to the number of
\* products still wanted, and go on to the next page unless a limit is hit
\* or the page shows no card.  A wait that times out raises.
SearchPage ==
    /\ search.pc = "loop"
    /\ WhileCondition(search)
    /\ \E shown \in ResultPages, next_anchor \in BOOLEAN :
        LET seen == Append(search.shown,
                           [page_no |-> search.current_page,
                            had |-> Len(search.all_data),
                            cards |-> shown.cards])
            page_data == PageDataFrom(shown.cards, 1,
                                      ToScrape(shown.cards, search.all_data,
                                               search.max_products),
                                      Len(search.all_data), search.max_products,
                                      search.current_page)
            all_data == search.all_data \o page_data
        IN  search' =
              IF ~shown.anchor \/ (search.current_page = 1 /\ ~shown.info)
              THEN [search EXCEPT !.pc = "raised", !.shown = seen]
              ELSE IF shown.cards = <<>>
              THEN [search EXCEPT !.pc = "done", !.shown = seen]
              ELSE IF Len(all_data) >= search.max_products
              THEN [search EXCEPT !.pc = "done", !.shown = seen,
                                  !.all_data = all_data]
              ELSE IF search.current_page + 1 <= search.max_pages /\ ~next_anchor
              THEN [search EXCEPT !.pc = "raised", !.shown = seen,
                                  !.all_data = all_data,
                                  !.current_page = search.current_page + 1]
              ELSE [search EXCEPT !.shown = seen, !.all_data = all_data,
                                  !.current_page = search.current_page + 1]
    /\ UNCHANGED <<resolver_vars, reviews, main>>

\* The loop condition fails: return all_data.
SearchReturn ==
    /\ search.pc = "loop"
    /\ ~WhileCondition(search)
    /\ search' = [search EXCEPT !.pc = "done"]
    /\ UNCHANGED <<resolver_vars, reviews, main>>

NextSearch ==
    \/ SearchPage
    \/ SearchReturn

SpecSearch == InitSearch /\ [][NextSearch]_vars

-----------------------------------------------------------------------------
(* scrape_reviews_with_pagination *)

\* How many review articles a page may hold.
ReviewCounts == 0..2

\* What the pagination does when the next page is asked for: there is no
\* pagination bar, its next button is disabled, the click goes through, the
\* click raises and the scripted click goes through, both clicks raise, the
\* click goes through and no review shows up within the wait.
NavKinds == {"nopagination", "disabled", "clicked", "jsclicked", "clickfailed",
             "noload"}

\* navigate_to_next_review_page: what it returns and how many clicks reached
\* the next button.
NavigateToNextReviewPage(nav) ==
    CASE nav = "clicked" -> [ok |-> TRUE, clicks |-> 1]
      [] nav = "jsclicked" -> [ok |-> TRUE, clicks |-> 1]
      [] nav = "noload" -> [ok |-> FALSE, clicks |-> 1]
      [] OTHER -> [ok |-> FALSE, clicks |-> 0]

\* The page limit taken as reached one page late.
AfterMaxPages(r) == r.current_page > r.max_pages

\* if current_page >= max_pages
AtMaxPages(r) == r.current_page >= r.max_pages

InitReviews ==
    /\ ResolverOff
    /\ search = NoCall
    /\ main = NoCall
    /\ \E mp \in 0..MaxReviewPages :
          reviews = [pc |-> "loop", max_pages |-> mp, current_page |-> 1,
                     all_reviews |-> <<>>, visits |-> <<>>, navs |-> <<>>,
                     clicks |-> 0]

\* One pass of the loop: wait for a review article, collect the reviews of
\* the page, and at the page limit stop, else ask for the next page and wait
\* for its reviews.
ReviewsPage ==
    /\ reviews.pc = "loop"
    /\ reviews.current_page <= reviews.max_pages
    /\ \E present \in BOOLEAN, count \in ReviewCounts, nav \in NavKinds,
          loaded \in BOOLEAN :
        LET page_reviews == [i \in 1..count |->
                                [page |-> Len(reviews.visits) + 1, pos |-> i]]
            seen == Append(reviews.visits,
                           [page_no |-> reviews.current_page,
                            present |-> present, count |-> count])
            all_reviews == reviews.all_reviews \o page_reviews
            n == NavigateToNextReviewPage(nav)
        IN  reviews' =
              IF ~present \/ count = 0
              THEN [reviews EXCEPT !.pc = "done", !.visits = seen]
              ELSE IF AtMaxPages(reviews)
              THEN [reviews EXCEPT !.pc = "done", !.visits = seen,
                                   !.all_reviews = all_reviews]
              ELSE IF ~n.ok
              THEN [reviews EXCEPT !.pc = "done", !.visits = seen,
                                   !.all_reviews = all_reviews,
                                   !.navs = Append(reviews.navs, nav),
                                   !.clicks = reviews.clicks + n.clicks]
              ELSE [reviews EXCEPT !.pc = (IF loaded THEN "loop" ELSE "done"),
                                   !.visits = seen,
                                   !.all_reviews = all_reviews,
                                   !.navs = Append(reviews.navs, nav),
                                   !.clicks = reviews.clicks + n.clicks,
                                   !.current_page = reviews.current_page + 1]
    /\ UNCHANGED <<resolver_vars, search, main>>

\* The loop condition fails: return all_reviews.
ReviewsReturn ==
    /\ reviews.pc = "loop"
    /\ reviews.current_page > reviews.max_pages
    /\ reviews' = [reviews EXCEPT !.pc = "done"]
    /\ UNCHANGED <<resolver_vars, search, main>>

NextReviews ==
    \/ ReviewsPage
    \/ ReviewsReturn

SpecReviews == InitReviews /\ [][NextReviews]_vars

-----------------------------------------------------------------------------
(* main *)

\* The product_url values of the records one search may return: a usable
\* address is "url"; "N/A" and "" are not.
SearchYields == {<<>>, <<"url">>, <<"N/A", "url">>, <<"url", "">>}

\* How a call made by main ends: it returns, it raises an exception, the
\* user interrupts it.
Outcomes == {"returns", "raises", "interrupt"}

\* A driver started for every call.
StartsAlways(driver) == TRUE

\* if not self.driver
NeedsDriver(driver) == driver = 0

\* The record kept without a "details" key when no record was assembled.
DetailsWhenAssembled(usable, outcome) ==
    IF usable /\ outcome = "returns" THEN "record" ELSE "unset"

\* prod["details"]: the assembled record when scrape_product_details
\* returned, {} when the address is not usable or something raised.
DetailsOf(usable, outcome) ==
    IF usable /\ outcome = "returns" THEN "record" ELSE "empty"

\* product_url and product_url != "N/A"
Usable(product_url) == product_url # "" /\ product_url # "N/A"

\* BaseCollector.close_driver on the search collector.
CloseDriver(m) ==
    IF m.searcher # 0
    THEN [m EXCEPT !.quits = Append(m.quits, m.searcher), !.searcher = 0]
    ELSE m

\* The collectors are constructed, none with a driver; no session has been
\* started.  sessions lists, for each session started, the collector that
\* started it; a driver is the number of its session, 0 standing for None.
InitMain ==
    /\ ResolverOff
    /\ search = NoCall
    /\ reviews = NoCall
    /\ \E n \in 0..MaxUrls :
          main = [pc |-> "start", valid_urls |-> n, url_i |-> 1,
                  all_products |-> <<>>, prod_i |-> 1, visits |-> <<>>,
                  searcher |-> 0, prod_scraper |-> 0, review_scraper |-> 0,
                  sessions |-> <<>>, quits |-> <<>>, exit |-> ""]

\* if not valid_urls: return
MainStart ==
    /\ main.pc = "start"
    /\ main' = IF main.valid_urls = 0
               THEN [main EXCEPT !.pc = "exited", !.exit = "nourls"]
               ELSE [main EXCEPT !.pc = "search"]
    /\ UNCHANGED <<resolver_vars, search, reviews>>

\* One search URL: scrape_search_results starts the driver when the search
\* collector has none, which may fail, and returns its records or raises;
\* an exception goes on to the next URL, an interrupt to the finally clause.
MainSearch ==
    /\ main.pc = "search"
    /\ main.url_i <= main.valid_urls
    /\ \E started \in BOOLEAN, outcome \in Outcomes, yield \in SearchYields :
        LET need == NeedsDriver(main.searcher)
            m == IF need /\ started
                 THEN [main EXCEPT !.sessions = Append(main.sessions, "searcher"),
                                   !.searcher = Len(main.sessions) + 1]
                 ELSE main
            products_on_page ==
                [k \in 1..Len(yield) |->
                    [product_url |-> yield[k], details |-> "unset"]]
        IN  main' =
              IF need /\ ~started
              THEN [m EXCEPT !.url_i = main.url_i + 1]
              ELSE CASE outcome = "returns" ->
                          [m EXCEPT !.url_i = main.url_i + 1,
                                    !.all_products = main.all_products \o products_on_page]
                     [] outcome = "raises" ->
                          [m EXCEPT !.url_i = main.url_i + 1]
                     [] OTHER ->
                          [m EXCEPT !.pc = "finally", !.exit = "interrupt"]
    /\ UNCHANGED <<resolver_vars, search, reviews>>

\* After the last URL: without products, return; with some, the product
\* collector is given the driver of the search collector.
MainSearchDone ==
    /\ main.pc = "search"
    /\ main.url_i > main.valid_urls
    /\ main' = IF Len(main.all_products) = 0
               THEN [main EXCEPT !.pc = "finally", !.exit = "noproducts"]
               ELSE [main EXCEPT !.pc = "details", !.prod_i = 1,
                                 !.prod_scraper = main.searcher]
    /\ UNCHANGED <<resolver_vars, search, reviews>>

\* One product of the detail loop.  scrape_product_details starts a driver
\* when the product collector has none and hands its driver to the review
\* collector before the reviews are collected; late tells whether an
\* exception came after that point.
MainDetail ==
    /\ main.pc = "details"
    /\ main.prod_i <= Len(main.all_products)
    /\ \E outcome \in Outcomes, late \in BOOLEAN :
        LET prod == main.all_products[main.prod_i]
            usable == Usable(prod.product_url)
            need == NeedsDriver(main.prod_scraper)
            m == IF usable /\ need
                 THEN [main EXCEPT !.sessions = Append(main.sessions, "prod_scraper"),
                                   !.prod_scraper = Len(main.sessions) + 1]
                 ELSE main
            seen == Append(main.visits,
                           [index |-> main.prod_i,
                            outcome |-> IF usable THEN outcome ELSE "skipped"])
            reached == usable /\ (outcome = "returns" \/ late)
        IN  main' =
              IF usable /\ outcome = "interrupt"
              THEN [m EXCEPT !.pc = "finally", !.exit = "interrupt",
                             !.visits = seen,
                             !.review_scraper =
                                 IF late THEN m.prod_scraper ELSE main.review_scraper]
              ELSE [m EXCEPT !.all_products[main.prod_i].details =
                                 DetailsOf(usable, outcome),
                             !.visits = seen,
                             !.prod_i = main.prod_i + 1,
                             !.review_scraper =
                                 IF reached THEN m.prod_scraper ELSE main.review_scraper]
    /\ UNCHANGED <<resolver_vars, search, reviews>>

\* The detail loop is over.
MainDetailsDone ==
    /\ main.pc = "details"
    /\ main.prod_i > Len(main.all_products)
    /\ main' = [main EXCEPT !.pc = "save"]
    /\ UNCHANGED <<resolver_vars, search, reviews>>

\* Saving and the summary: done, an exception, or an interrupt.
MainSave ==
    /\ main.pc = "save"
    /\ \E outcome \in Outcomes :
          main' = [main EXCEPT !.pc = "finally",
                               !.exit = CASE outcome = "returns" -> "normal"
                                          [] outcome = "raises" -> "error"
                                          [] OTHER -> "interrupt"]
    /\ UNCHANGED <<resolver_vars, search, reviews>>

\* finally: searcher.close_driver()
MainFinally ==
    /\ main.pc = "finally"
    /\ main' = [CloseDriver(main) EXCEPT !.pc = "exited"]
    /\ UNCHANGED <<resolver_vars, search, reviews>>

NextMain ==
    \/ MainStart
    \/ MainSearch
    \/ MainSearchDone
    \/ MainDetail
    \/ MainDetailsDone
    \/ MainSave
    \/ MainFinally

SpecMain == InitMain /\ [][NextMain]_vars

-----------------------------------------------------------------------------
(* Properties *)

\* A call on a product with variants has returned; log holds all its page
\* interactions, in order.
Finished == pc = "done" /\ Len(variants) > 0 /\ Len(log) > 0

\* The events of the current call of kind op that belong to candidate i.
EventsOf(op, i) == {k \in 1..Len(log) : log[k].op = op /\ log[k].cand = i}

\* The chip of option o under axis a shows a label: its text is not empty
\* and is not an address.
Labelled(a, o) ==
    ChipText(page, a, o) # Blank /\ ~StartsWithHttp(ChipText(page, a, o))

\* The page's own answer: opts lists, in document order, exactly the labels
\* of the chips of axis a that are enabled under the selection sel.
ReportsEnabled(opts, sel, a) ==
    LET live == {o \in Options : Enabled(page, sel, a, o) /\ Labelled(a, o)} IN
    /\ Len(opts) = Cardinality(live)
    /\ \A o \in live :
          opts[Cardinality({p \in live : p <= o})] = FirstLine(ChipText(page, a, o))

\* The candidates that a list of reports stands for.
RECURSIVE CandidatesOf(_)
CandidatesOf(rs) ==
    IF Len(rs) = 0 THEN <<>>
    ELSE [k \in 1..Len(Head(rs).opts) |-> Append(Head(rs).base, Head(rs).opts[k])]
         \o CandidatesOf(Tail(rs))

FinalTextAt(k) == View(page, log[k].sel).final[log[k].axis]

HabisShown(stock) ==
    stock.found /\ \E t \in 1..Len(stock.tokens) :
                      stock.tokens[t].word \in {"habis", "Habis", "HABIS"}

\* C3: for a candidate whose stock text contains 'habis' in any letter case,
\* no entry is produced and neither the final-price nor the original-price
\* text is read.
C3_OutOfStockNotPriced ==
    Finished => \A k \in 1..Len(log) :
        (log[k].op = "stock" /\ HabisShown(View(page, log[k].sel).stock)) =>
            /\ EventsOf("final", log[k].cand) = {}
            /\ EventsOf("orig", log[k].cand) = {}
            /\ EventsOf("append", log[k].cand) = {}

C3_Witness ==
    /\ pc = "done"
    /\ \E k \in 1..Len(log) :
        /\ log[k].op = "stock"
        /\ HabisShown(View(page, log[k].sel).stock)
        /\ View(page, log[k].sel).final[1].found
        /\ \E t \in 1..Len(View(page, log[k].sel).stock.tokens) :
              View(page, log[k].sel).stock.tokens[t].word = "Habis"
    /\ Len(result) + 1 = Len(combos)

\* C4: when a final-price selector finds its element and the text has a
\* hyphen, no later final-price selector is consulted for that candidate and
\* no entry is produced for it.
C4_RangeEndsFinalPriceSearch ==
    Finished => \A k \in 1..Len(log) :
        (log[k].op = "final" /\ FinalTextAt(k).found /\ FinalTextAt(k).hyphen) =>
            /\ \A l \in EventsOf("final", log[k].cand) : log[l].axis <= log[k].axis
            /\ EventsOf("append", log[k].cand) = {}

\* A range under the first selector while the second one holds a price.
C4_Witness ==
    /\ pc = "done"
    /\ \E k \in 1..Len(log) :
        /\ log[k].op = "final"
        /\ log[k].axis = 1
        /\ FinalTextAt(k).hyphen
        /\ LET later == View(page, log[k].sel).final[2] IN
           later.found /\ later.rp /\ ~later.hyphen /\ later.wellformed
    /\ Len(result) + 1 = Len(combos)

\* d (in tenths of a percent) is 100 * (o - f) / o rounded to one decimal.
NearestTenth(d, f, o) ==
    /\ 2 * (d * o - 1000 * (o - f)) <= o
    /\ 2 * (1000 * (o - f) - d * o) <= o

\* C5: in every entry discount_percent is 0 unless original_price >
\* final_price, and then it is 100 * (original_price - final_price) /
\* original_price rounded to one decimal place; 80000 against 100000 is 20.0.
C5_DiscountPercent ==
    Finished => \A k \in 1..Len(result) :
        LET e == result[k] IN
        /\ ~(e.original_price > e.final_price) => e.discount_percent = 0
        /\ e.original_price > e.final_price =>
              NearestTenth(e.discount_percent, e.final_price, e.original_price)
        /\ (e.final_price = 80000 /\ e.original_price = 100000) =>
              e.discount_percent = 200

C5_Witness ==
    /\ pc = "done"
    /\ \E k \in 1..Len(result) :
        /\ result[k].final_price = 80000
        /\ result[k].original_price = 100000
        /\ result[k].discount_percent = 200

\* The entries appended in the current call, in the order of appending.
Appends == SelectSeq(log, LAMBDA e : e.op = "append")

\* No final-price selector holds a single well-formed price.
NoFinalReadable(view) ==
    \A t \in 1..Len(view.final) :
        ~(view.final[t].found /\ view.final[t].rp /\ ~view.final[t].hyphen
          /\ view.final[t].wellformed)

\* Candidate i met a timeout, an out-of-stock label or no readable price.
Unpriceable(i) ==
    \E k \in EventsOf("wait", i) :
        \/ ~log[k].ok
        \/ HabisShown(View(page, log[k].sel).stock)
        \/ NoFinalReadable(View(page, log[k].sel))

\* Candidate j has been clicked on every axis and waited for.
Attempted(j) ==
    /\ EventsOf("wait", j) # {}
    /\ \A a \in 1..Len(variants) :
          \E k \in EventsOf("click", j) : log[k].axis = a

\* C6: a candidate whose price element does not appear in time, or that is
\* out of stock, or for which no final price can be read, gets no entry; the
\* call still returns its list, and every later candidate is attempted.
C6_FailedCandidateDropped ==
    Finished =>
        /\ \A i \in 1..Len(combos) : Unpriceable(i) => EventsOf("append", i) = {}
        /\ \A j \in 1..Len(combos) : Attempted(j)
        /\ Len(result) = Len(Appends)

C6_Witness ==
    /\ Finished
    /\ \E i \in 1..Len(combos), j \in 1..Len(combos) :
        /\ i < j
        /\ \E k \in EventsOf("wait", i) : ~log[k].ok
        /\ EventsOf("append", i) = {}
        /\ EventsOf("append", j) # {}

\* C7: the returned list is a subsequence of the candidate list: entries are
\* in candidate order, at most one per candidate.
C7_ResultInCandidateOrder ==
    Finished =>
        LET as == Appends IN
        /\ Len(as) = Len(result)
        /\ \A k \in 1..Len(as) :
              /\ k <= Len(result)
              /\ result[k].variant_options = combos[as[k].cand]
        /\ \A k \in 1..Len(as), l \in 1..Len(as) :
              k < l => as[k].cand < as[l].cand

\* Two entries around a dropped candidate, the dearer one first.
C7_Witness ==
    /\ Finished
    /\ Len(result) >= 2
    /\ Len(result) < Len(combos)
    /\ result[1].final_price > result[2].final_price

\* C8: with no axis scrape_variant_details returns [] without any click,
\* query or wait, and scrape_product_details does not call it at all when
\* the scan found no variant.
C8_NoAxesNoInteraction ==
    /\ (caller = "direct" /\ Len(variants) = 0) =>
          /\ \A k \in 1..Len(log) : log[k].op = "call"
          /\ pc = "done" => result = <<>>
    /\ (caller = "scrape_product_details" /\ page.n = 0) =>
          /\ log = <<>>
          /\ available_variant_details = <<>>
          /\ pc \in {"product", "done"}

C8_Witness ==
    /\ caller = "direct"
    /\ page.n = 0
    /\ pc = "done"
    /\ Len(log) = 1
    /\ result = <<>>

Untouched(j) ==
    CASE page.anomaly.type = "none" -> TRUE
      [] page.anomaly.type = "special" -> combos[j] # page.anomaly.combo
      [] page.anomaly.type = "broken" /\ page.anomaly.kind \in ClickKinds ->
            combos[j][page.anomaly.axis] # page.anomaly.opt
      [] OTHER -> FALSE

\* The entry of a candidate with the ordinary view.
OrdinaryEntry(combo) ==
    [variant_options |-> combo,
     final_price |-> 100000 + 1000 * Weight(combo),
     original_price |-> 100000 + 1000 * Weight(combo),
     stock |-> 5,
     discount_percent |-> 0]

AdvertisedOptions(a) == {variants[a][k] : k \in 1..Len(variants[a])}

\* C11: every emitted entry assigns one option to every axis of the product
\* and each assigned value is one of the advertised options of its axis; no
\* candidate that leaves an axis unassigned is priced.
C11_EntriesAssignEveryAxis ==
    Finished =>
        /\ \A k \in 1..Len(result) :
              /\ Len(result[k].variant_options) = Len(variants)
              /\ \A a \in 1..Len(variants) :
                    result[k].variant_options[a] \in AdvertisedOptions(a)
        /\ \A i \in 1..Len(combos) : Len(combos[i]) = Len(variants)

\* A single well-formed price: "Rp", digits and separators, no hyphen.
SinglePrice(t) == t.found /\ t.rp /\ ~t.hyphen /\ t.wellformed

\* C12: every emitted entry has a final price, a stock and a discount that
\* are integers (the discount in tenths) not below 0, and its final price
\* is the one read for its candidate from a selector that showed a single
\* price; no entry is emitted without such a read.
C12_EntriesNonNegative ==
    Finished =>
        LET as == Appends IN
        /\ Len(as) = Len(result)
        /\ \A k \in 1..Len(result) :
              /\ result[k].final_price \in Nat
              /\ result[k].stock \in Nat
              /\ result[k].discount_percent \in Nat
              /\ k <= Len(as)
              /\ \E f \in EventsOf("final", as[k].cand) :
                    /\ SinglePrice(FinalTextAt(f))
                    /\ result[k].final_price = FinalTextAt(f).value

\* A page that shows "Rp-5.000" for one combination: that candidate has no
\* entry, the others have theirs.
C12_Witness ==
    /\ Finished
    /\ page.anomaly.kind = "negative"
    /\ \E f \in 1..Len(log) :
          log[f].op = "final" /\ FinalTextAt(f).value < 0
    /\ Len(result) > 0
    /\ Len(result) + 1 = Len(combos)

\* No original-price selector shows a text that yields a value.
NoOriginalReadable(view) ==
    \A t \in 1..Len(view.orig) :
        ~(view.orig[t].found /\ view.orig[t].rp /\ view.orig[t].wellformed)

\* C13: an entry whose candidate had no original-price selector yielding a
\* value has original_price equal to its final_price and discount 0; the
\* original_price of every entry is an integer, never None.
C13_OriginalDefaultsToFinal ==
    Finished =>
        LET as == Appends IN
        \A k \in 1..Len(result) :
            /\ k <= Len(as)
            /\ result[k].original_price \in Int
            /\ NoOriginalReadable(View(page, as[k].sel)) =>
                  /\ result[k].original_price = result[k].final_price
                  /\ result[k].discount_percent = 0

\* The final price comes from the second selector and no slashed price is
\* shown.
C13_Witness ==
    /\ Finished
    /\ page.anomaly.kind = "fallback"
    /\ \E k \in 1..Len(result) :
          /\ result[k].final_price = 95000
          /\ result[k].original_price = 95000
          /\ result[k].discount_percent = 0

\* The first number among the tokens of a stock text, 0 when it has none.
FirstDigits(tokens) ==
    LET at == {t \in 1..Len(tokens) : tokens[t].num >= 0} IN
    IF at = {} THEN 0
    ELSE tokens[CHOOSE t \in at : \A u \in at : t <= u].num

\* C14: the stock of an entry is the first run of digits of the stock text
\* shown for its candidate, and 0 when that text has no digits or there is
\* no stock label; a candidate without a readable stock label is not
\* dropped for it: its prices are read and, a single price being shown, it
\* has its entry.
C14_StockIsFirstNumber ==
    Finished =>
        LET as == Appends IN
        /\ \A k \in 1..Len(result) :
              /\ k <= Len(as)
              /\ LET st == View(page, as[k].sel).stock IN
                  result[k].stock = (IF st.found THEN FirstDigits(st.tokens) ELSE 0)
        /\ \A j \in 1..Len(log) :
              (log[j].op = "stock" /\ ~HabisShown(View(page, log[j].sel).stock)) =>
                  /\ EventsOf("final", log[j].cand) # {}
                  /\ SinglePrice(View(page, log[j].sel).final[1]) =>
                        EventsOf("append", log[j].cand) # {}

\* "Sisa 3 dari 10" counts 3.
C14_Witness ==
    /\ Finished
    /\ page.anomaly.kind = "twonumbers"
    /\ Len(result) = Len(combos)
    /\ \E k \in 1..Len(result) : result[k].stock = 3

\* The label a chip shows: the first line of its text.
LabelOf(a, o) == FirstLine(ChipText(page, a, o))

C16_SearchWithinLimits ==
    search.pc # "off" =>
        LET n == Len(search.shown) IN
        /\ n <= search.max_pages
        /\ \A k \in 1..n :
              /\ search.shown[k].page_no = k
              /\ search.shown[k].had < search.max_products
              /\ k < n => search.shown[k].cards # <<>>
        /\ search.pc = "done" =>
              /\ Len(search.all_data) <= search.max_products
              /\ \A k \in 1..Len(search.all_data) : search.all_data[k].title # "N/A"
              /\ \/ Len(search.all_data) = search.max_products
                 \/ n = search.max_pages
                 \/ n > 0 /\ search.shown[n].cards = <<>>

\* Three products wanted: two from the first page, whose second card has no
\* usable title, and the first of the second page.
C16_Witness ==
    /\ search.pc = "done"
    /\ search.max_products = 3
    /\ search.max_pages = 3
    /\ Len(search.shown) = 2
    /\ search.shown[1].cards = <<"titled", "short", "titled">>
    /\ Len(search.shown[2].cards) = 3
    /\ Len(search.all_data) = 3
    /\ search.all_data[3].page = 2

\* The visits of a review collection that yielded reviews.
Collected(v) == v.present /\ v.count > 0

\* The number of reviews of the first k visits.
RECURSIVE ReviewsUpTo(_)
ReviewsUpTo(k) ==
    IF k = 0 THEN 0
    ELSE ReviewsUpTo(k - 1) +
         (IF Collected(reviews.visits[k]) THEN reviews.visits[k].count ELSE 0)

\* The pages visited are 1, 2, ... up to max_pages at most, every one but
\* the last yielded reviews, and all_reviews is the reviews of the visits in
\* page order.
ReviewsInPageOrder ==
    LET n == Len(reviews.visits) IN
    /\ n <= reviews.max_pages \/ n = 0
    /\ Len(reviews.navs) <= n
    /\ reviews.clicks <= Len(reviews.navs)
    /\ \A k \in 1..n :
          /\ reviews.visits[k].page_no = k
          /\ k < n => Collected(reviews.visits[k])
    /\ reviews.pc = "done" =>
          /\ Len(reviews.all_reviews) = ReviewsUpTo(n)
          /\ \A k \in 1..n :
                Collected(reviews.visits[k]) =>
                    \A i \in 1..reviews.visits[k].count :
                        reviews.all_reviews[ReviewsUpTo(k - 1) + i] =
                            [page |-> k, pos |-> i]
          /\ (n > 0 /\ ~Collected(reviews.visits[1])) => reviews.all_reviews = <<>>
          /\ \/ n = reviews.max_pages
             \/ n = 0
             \/ ~Collected(reviews.visits[n])
             \/ Len(reviews.navs) = n

\* C17 as stated: reviews come from at most max_pages pages, the next-page
\* control is clicked at most max_pages - 1 times, the collection stops at
\* the first page without reviews or when the navigation fails, and the
\* reviews of the pages collected are returned in page order.
C17_ReviewsWithinPages ==
    reviews.pc = "done" =>
        /\ ReviewsInPageOrder
        /\ reviews.clicks <= reviews.max_pages - 1
        /\ Len(reviews.navs) <= reviews.max_pages - 1

\* C17: as above, the next-page control being clicked at most max_pages - 1
\* times when max_pages is 1 or more, and not at all when it is 0.
C17_ReviewsWithinPagesFromOne ==
    reviews.pc # "off" =>
        /\ ReviewsInPageOrder
        /\ reviews.max_pages >= 1 =>
              /\ reviews.clicks <= reviews.max_pages - 1
              /\ Len(reviews.navs) <= reviews.max_pages - 1
        /\ reviews.max_pages = 0 =>
              reviews.clicks = 0 /\ reviews.navs = <<>> /\ reviews.all_reviews = <<>>

\* Three pages allowed and visited, two clicks, the reviews in page order.
C17_Witness ==
    /\ reviews.pc = "done"
    /\ reviews.max_pages = 3
    /\ Len(reviews.visits) = 3
    /\ reviews.clicks = 2
    /\ reviews.navs = <<"clicked", "jsclicked">>
    /\ Len(reviews.all_reviews) = 5
    /\ reviews.all_reviews[1].page = 1
    /\ reviews.all_reviews[5].page = 3

\* The chips a combination asks for, axis by axis.
ChipsOf(combo) == [a \in 1..Len(combo) |-> Requested(page, a, combo[a])]

\* Every click issued for candidate i left the requested chip selected.
ClicksSelected(i) ==
    \A k \in EventsOf("click", i) :
        log[k].sel[log[k].axis] = Requested(page, log[k].axis, log[k].value)

\* C18: for a candidate all of whose clicks left the requested option
\* selected, the selection on the page at the wait and at every read of
\* stock and price is the candidate's own combination, and its entry carries
\* the price and the stock the page shows for that combination.
C18_ReadsOwnCombination ==
    Finished =>
        LET as == Appends IN
        /\ \A k \in 1..Len(log) :
              (/\ log[k].cand > 0
               /\ log[k].op \in {"wait", "stock", "final", "orig", "append"}
               /\ ClicksSelected(log[k].cand))
              => log[k].sel = ChipsOf(combos[log[k].cand])
        /\ \A k \in 1..Len(result) :
              /\ k <= Len(as)
              /\ ClicksSelected(as[k].cand) =>
                    LET own == View(page, ChipsOf(combos[as[k].cand])) IN
                    /\ \E t \in 1..Len(own.final) :
                          /\ SinglePrice(own.final[t])
                          /\ result[k].final_price = own.final[t].value
                    /\ result[k].stock =
                          (IF own.stock.found THEN FirstDigits(own.stock.tokens) ELSE 0)

\* Four candidates priced one after the other, the discounted one showing
\* its own price and its neighbours theirs.
C18_Witness ==
    /\ Finished
    /\ page.n = 2
    /\ page.anomaly.kind = "discount"
    /\ Len(result) = 4
    /\ \A i \in 1..Len(combos) : ClicksSelected(i)
    /\ \E k \in 1..Len(result) :
          /\ result[k].variant_options = page.anomaly.combo
          /\ result[k].final_price = 80000
          /\ \A l \in 1..Len(result) : l # k => result[l].final_price > 100000

\* A text that matches the range pattern: it has a hyphen.
IsRange(t) == t.found /\ t.hyphen

\* The final-price texts with every range text taken for a missing element.
RangeAsNoElement(final) ==
    [t \in 1..Len(final) |-> IF IsRange(final[t]) THEN NoElement ELSE final[t]]

\* The final-price texts with the first range text and every text after it
\* taken for a missing element.
RangeAndLaterAsNoElement(final) ==
    [t \in 1..Len(final) |->
        IF \E u \in 1..t : IsRange(final[u]) THEN NoElement ELSE final[t]]

\* C19 as stated: the final price read for a candidate is the one that is
\* read when each selector that shows a range text finds no element instead.
C19_RangeLikeNoElement ==
    pc = "orig" =>
        final_price =
            FinalPriceFrom(RangeAsNoElement(View(page, selection).final), 1).price

\* C19: the final price read for a candidate is the one that is read when
\* the selector that shows a range text and every selector after it find no
\* element: a range text ends the search without a price, and only a missing
\* element passes on to the next selector.
C19_RangeEndsSearch ==
    pc = "orig" =>
        LET final == View(page, selection).final IN
        /\ final_price = FinalPriceFrom(RangeAndLaterAsNoElement(final), 1).price
        /\ (IsRange(final[1]) /\ SinglePrice(final[2])) => final_price = <<>>
        /\ (~final[1].found /\ SinglePrice(final[2])) => final_price = <<final[2].value>>

\* A range under the first selector, a single price under the second: no
\* price is read.
C19_Witness ==
    /\ pc = "orig"
    /\ page.anomaly.kind = "range"
    /\ selection = page.anomaly.combo
    /\ IsRange(View(page, selection).final[1])
    /\ SinglePrice(View(page, selection).final[2])
    /\ final_price = <<>>

\* The selection on the page just before the k-th interaction of the call.
SelBefore(k) == log[k - 1].sel

\* The k-th interaction is a click on a chip that is already the selected
\* one of its axis.
Reclick(k) ==
    /\ log[k].op = "click"
    /\ SelBefore(k)[log[k].axis] = Matching(page, log[k].axis, log[k].value)

\* Between two interactions the selection changes by a click alone, and on
\* the axis of that click alone.
SelectionKept ==
    \A k \in 2..Len(log) :
        log[k].sel # SelBefore(k) =>
            /\ log[k].op = "click"
            /\ \A a \in 1..Len(variants) :
                  a # log[k].axis => log[k].sel[a] = SelBefore(k)[a]

\* C20 as stated: the selection is not reset between candidates, and no
\* click is issued for an axis whose requested option is already selected.
C20_ClicksOnlyChanges ==
    Finished =>
        /\ SelectionKept
        /\ \A k \in 2..Len(log) : ~Reclick(k)

\* C20: the selection is not reset between candidates, and every base and
\* every candidate gets one click for each of its axes, in axis order,
\* whether or not the requested option is already selected.
C20_ClicksEveryAxis ==
    Finished =>
        LET n == Len(variants) IN
        /\ SelectionKept
        /\ \A i \in 1..Len(combos) :
              LET cs == EventsOf("click", i) IN
              /\ Cardinality(cs) = n
              /\ \A a \in 1..n : \E k \in cs : log[k].axis = a
              /\ \A k \in cs, l \in cs : k < l => log[k].axis < log[l].axis
        /\ n >= 2 =>
              /\ Cardinality(EventsOf("click", 0)) = (n - 1) * Len(first_combos)
              /\ \A k \in EventsOf("click", 0) :
                    log[k].axis < n /\ (log[k].axis > 1 => log[k - 1].op = "click")

\* The second candidate of a base: its first axis is clicked though the
\* option is selected already, and the click goes through.
C20_Witness ==
    /\ Finished
    /\ page.n = 2
    /\ page.anomaly.type = "none"
    /\ \E k \in 2..Len(log) :
          /\ Reclick(k)
          /\ log[k].cand = 2
          /\ log[k].axis = 1
          /\ log[k].ok
          /\ log[k].sel = SelBefore(k)

\* The entry of candidate i in the returned list carries the candidate's own
\* combination.
EntryLabelled(i) ==
    LET as == Appends IN
    \E p \in 1..Len(result) :
        /\ p <= Len(as)
        /\ as[p].cand = i
        /\ result[p].variant_options = combos[i]

\* C21: a click that returns False does not skip its candidate: every axis
\* of the candidate is still clicked, the wait follows and, when the price
\* element is there, the stock read and, unless the label says out of stock,
\* the price reads, under the selection the clicks left; an entry labelled
\* with the candidate is emitted whenever a final price is read.  After a
\* failed click of a base the remaining axes of the base are clicked and the
\* last axis is queried.
C21_FailedClickDoesNotSkip ==
    Finished =>
        \A k \in 1..Len(log) :
            (log[k].op = "click" /\ ~log[k].ok) =>
                IF log[k].cand > 0
                THEN LET i == log[k].cand IN
                     /\ \A a \in 1..Len(variants) :
                           \E l \in EventsOf("click", i) : log[l].axis = a
                     /\ \E w \in EventsOf("wait", i) :
                           /\ w > k
                           /\ log[w].ok =>
                                 \E st \in EventsOf("stock", i) :
                                    /\ st > w
                                    /\ log[st].sel = log[w].sel
                                    /\ ~HabisShown(View(page, log[st].sel).stock) =>
                                          /\ EventsOf("final", i) # {}
                                          /\ EventsOf("orig", i) # {}
                                          /\ \A f \in EventsOf("final", i) :
                                                /\ f > st
                                                /\ log[f].sel = log[w].sel
                                                /\ SinglePrice(FinalTextAt(f)) =>
                                                      EntryLabelled(i)
                ELSE \E q \in (k + 1)..Len(log) :
                        /\ log[q].op = "query"
                        /\ log[q].axis = Len(variants)
                        /\ q - k = Len(variants) - log[k].axis
                        /\ \A l \in (k + 1)..(q - 1) :
                              /\ log[l].op = "click"
                              /\ log[l].cand = 0
                              /\ log[l].axis = log[k].axis + (l - k)

\* The header of the first of two axes is not found: every click on it
\* fails, for the bases and for the candidates, and every candidate is
\* priced all the same, under a selection that has nothing on that axis.
C21_Witness ==
    /\ Finished
    /\ page.n = 2
    /\ HeaderLost(page, 1)
    /\ Len(combos) > 0
    /\ Len(result) = Len(combos)
    /\ \E k \in 1..Len(log) : log[k].op = "click" /\ log[k].cand = 0 /\ ~log[k].ok
    /\ \A i \in 1..Len(combos) :
          /\ \E k \in EventsOf("click", i) : ~log[k].ok /\ log[k].axis = 1
          /\ EntryLabelled(i)
          /\ \A k \in EventsOf("final", i) : log[k].sel[1] = 0

\* The buttons of axis a whose text is variant_value exactly.
ExactButtons(a, variant_value) ==
    {o \in Options : Equals(ChipText(page, a, o), variant_value)}

\* C22: when a button of the axis has the requested option for its text,
\* click_variant_button clicks that button and no other, and not an earlier
\* button whose text merely contains the option.  Stated of every call the
\* resolver is about to make, for a base and for a candidate.
C22_ExactButtonClicked ==
    pc \in {"base", "click"} =>
        LET combo == IF pc = "base" THEN first_combos[base_i] ELSE combos[idx]
            variant_value == combo[axis_i]
            exact == ExactButtons(axis_i, variant_value)
        IN  (exact # {} /\ ~HeaderLost(page, axis_i)) =>
                ClickVariantButton(page, selection, axis_i, variant_value).button
                    \in exact

\* C23: get_available_variant_options(axis) and click_variant_button(axis,
\* option) act on the chip group under the axis's own header and on no other
\* axis's group, also when the identifier of one axis begins with that of
\* another.  Stated of every call the resolver is about to make: the click
\* goes to the group of its axis, and the query of the last axis reports the
\* enabled chips of the last axis.
C23_OwnGroupOnly ==
    /\ pc \in {"base", "click"} =>
          LET combo == IF pc = "base" THEN first_combos[base_i] ELSE combos[idx]
          IN  ClickVariantButton(page, selection, axis_i, combo[axis_i]).group
                  \in {0, axis_i}
    /\ pc \in {"single", "query"} =>
          LET last_variant == Len(variants) IN
          ~HeaderLost(page, last_variant) =>
              /\ Header(page, last_variant) = last_variant
              /\ ReportsEnabled(
                     GetAvailableVariantOptions(page, selection, last_variant),
                     selection, last_variant)

\* The native click on the chip of option o under axis a raises, or the
\* scroll before it does.
NativeRaises(a, o) ==
    /\ page.anomaly.type = "broken"
    /\ page.anomaly.axis = a
    /\ page.anomaly.opt = o
    /\ page.anomaly.kind \in ClickKinds

\* The scripted click on it raises as well.
ScriptRaises(a, o) == NativeRaises(a, o) /\ page.anomaly.kind = "failed"

\* What a call of click_variant_button for value v on axis a must be.
OneClickWithOneRetry(r, sel, a, v) ==
    /\ r.native \in {0, 1}
    /\ r.script \in {0, 1}
    /\ r.ok \in BOOLEAN
    /\ (HeaderLost(page, a) \/ \A o \in Options : ~Contains(ChipText(page, a, o), v))
          => (~r.ok /\ r.button = 0 /\ r.native = 0 /\ r.script = 0 /\ r.sel = sel)
    /\ r.button # 0 =>
          /\ Contains(ChipText(page, a, r.button), v)
          /\ r.script = (IF NativeRaises(a, r.button) THEN 1 ELSE 0)
          /\ r.ok = ~ScriptRaises(a, r.button)
          /\ r.native + r.script >= 1
          /\ \A b \in 1..Len(sel) : b # a => r.sel[b] = sel[b]
          /\ r.sel[a] \in {sel[a], r.button}
          /\ ~r.ok => r.sel = sel

\* C24: in click_variant_button a native click that fails is followed by
\* exactly one scripted click on the same button; the call returns True when
\* either click goes through and False, without raising, when both fail or
\* when no header, no chip group or no matching button is found; at most one
\* button is clicked per call.  Stated of the call the resolver is about to
\* make, and of the value every call made has returned.
C24_OneRetryThenFalse ==
    /\ pc \in {"base", "click"} =>
          LET combo == IF pc = "base" THEN first_combos[base_i] ELSE combos[idx]
          IN  OneClickWithOneRetry(
                  ClickVariantButton(page, selection, axis_i, combo[axis_i]),
                  selection, axis_i, combo[axis_i])
    /\ Finished =>
          \A k \in 2..Len(log) :
              log[k].op = "click" =>
                  LET b == Matching(page, log[k].axis, log[k].value) IN
                  /\ log[k].ok = (/\ ~HeaderLost(page, log[k].axis)
                                  /\ b # 0
                                  /\ ~ScriptRaises(log[k].axis, b))
                  /\ ~log[k].ok => log[k].sel = SelBefore(k)

\* A chip whose native click raises: the scripted click selects it, the
\* call returns True and the candidate is priced under its own selection.
C24_Witness ==
    /\ Finished
    /\ page.anomaly.type = "broken"
    /\ page.anomaly.kind = "script"
    /\ \E k \in 2..Len(log) :
          /\ log[k].op = "click"
          /\ log[k].cand > 0
          /\ NativeRaises(log[k].axis, log[k].value)
          /\ log[k].ok
          /\ log[k].sel[log[k].axis] = log[k].value
          /\ SelBefore(k)[log[k].axis] # log[k].value
    /\ Len(result) = Len(combos)

\* The place of the text v among the advertised options of axis a.
PlaceOf(a, v) == CHOOSE p \in 1..Len(variants[a]) : variants[a][p] = v

\* Base x comes before base y when the first axis on which they differ has
\* the earlier option in x: the first axis varies slowest.
BaseBefore(x, y) ==
    \E a \in 1..Len(x) :
        /\ \A j \in 1..(a - 1) : x[j] = y[j]
        /\ PlaceOf(a, x[a]) < PlaceOf(a, y[a])

\* C25: the candidates are priced in the order in which they were
\* generated: the bases in cross-product order, the first axis varying
\* slowest, each with the options of the last axis in the order reported;
\* the interactions of candidate i all come before those of candidate i + 1;
\* and the clicks of one candidate go from the first axis to the last.
C25_PricedInGenerationOrder ==
    Finished =>
        LET n == Len(variants) IN
        /\ combos = CandidatesOf(reports)
        /\ n >= 2 =>
              /\ Len(reports) = Len(first_combos)
              /\ \A b \in 1..Len(reports) : reports[b].base = first_combos[b]
              /\ \A b \in 1..(Len(reports) - 1) :
                    BaseBefore(reports[b].base, reports[b + 1].base)
        /\ \A k \in 2..Len(log) :
              /\ log[k].cand \in {log[k - 1].cand, log[k - 1].cand + 1}
              /\ log[k].cand = log[k - 1].cand + 1 =>
                    log[k].op = "click" /\ log[k].axis = 1
              /\ (log[k].cand > 0 /\ log[k].cand = log[k - 1].cand
                  /\ log[k].op = "click") =>
                    /\ log[k - 1].op = "click"
                    /\ log[k].axis = log[k - 1].axis + 1
              /\ (log[k].cand > 0 /\ log[k].op # "click"
                  /\ log[k - 1].op = "click") => log[k - 1].axis = n
        /\ log[Len(log)].cand = Len(combos)

\* Three axes of two options: eight candidates, the last axis varying
\* fastest and the first slowest, each priced in its turn.
C25_Witness ==
    /\ Finished
    /\ page.n = 3
    /\ Len(combos) = 8
    /\ combos[2] = <<1, 1, 2>>
    /\ combos[3] = <<1, 2, 1>>
    /\ combos[5] = <<2, 1, 1>>
    /\ Len(result) = 8
    /\ \A i \in 1..8 : result[i].variant_options = combos[i]

\* The number of bases: the product of the advertised option counts of
\* the first k axes.
RECURSIVE CountProduct(_)
CountProduct(k) == IF k = 0 THEN 1 ELSE CountProduct(k - 1) * Len(variants[k])

\* The number of buttons in the chip group of an axis.
Controls == Len(Chips)

\* Every candidate has had one pricing attempt, and there are no more
\* attempts than the bases times the buttons of the last axis.
OneAttemptEach ==
    LET n == Len(variants)
        waits == {k \in 1..Len(log) : log[k].op = "wait"} IN
    /\ \A i \in 1..Len(combos) : Cardinality(EventsOf("wait", i)) = 1
    /\ Cardinality(waits) = Len(combos)
    /\ \A i \in 1..Len(combos) :
          /\ Cardinality(EventsOf("stock", i)) <= 1
          /\ Cardinality(EventsOf("append", i)) <= 1
          /\ Cardinality(EventsOf("click", i)) = n
    /\ Len(combos) <= CountProduct(n - 1) * Controls

\* C26: scrape_variant_details makes exactly one pricing attempt per
\* candidate, none retried after a failure and none skipped without an
\* attempt; the attempts are no more than the product of the advertised
\* option counts of the axes before the last times the number of buttons of
\* the last axis; and every call returns.
C26_OneAttemptEachAndReturns ==
    /\ [](Finished => OneAttemptEach)
    /\ (pc = "resolve") ~> (pc = "done")

\* The price of one of four candidates never shows up: four attempts, three
\* entries, and the call has returned.
C26_Witness ==
    /\ Finished
    /\ page.n = 2
    /\ page.anomaly.kind = "timeout"
    /\ Len(combos) = CountProduct(1) * Controls
    /\ Cardinality({k \in 1..Len(log) : log[k].op = "wait"}) = 4
    /\ \E k \in 1..Len(log) : log[k].op = "wait" /\ ~log[k].ok /\ log[k].cand < 4
    /\ Len(result) = 3

\* No header of any axis of the product is found on the page.
NoHeaderFound == \A a \in 1..page.n : HeaderLost(page, a)

\* C27: when no axis header can be located during the resolution, of a
\* product with one axis or with several, scrape_variant_details returns the
\* empty list and attempts no price wait, no stock read and no price read.
C27_NoHeaderNoPricing ==
    /\ (Finished /\ NoHeaderFound) =>
          /\ result = <<>>
          /\ combos = <<>>
          /\ \A k \in 1..Len(log) : log[k].op \in {"call", "click", "query"}
          /\ \A k \in 1..Len(log) : log[k].op = "click" => ~log[k].ok
          /\ \A r \in 1..Len(reports) : reports[r].opts = <<>>
    /\ (Len(variants) > 0 /\ NoHeaderFound) =>
          pc \notin {"click", "wait", "stock", "final", "orig", "record"}

\* Two axes and no header: every click of every base fails, every query of
\* the last axis comes back empty, and the call returns [].
C27_Witness ==
    /\ Finished
    /\ page.n = 2
    /\ page.anomaly.type = "headerless"
    /\ Len(reports) = Len(first_combos)
    /\ Len(reports) >= 2
    /\ \E k \in 1..Len(log) : log[k].op = "click" /\ ~log[k].ok
    /\ result = <<>>

\* The call that has just returned ended in the handler around its body.
Escaped == Len(log) > 0 /\ log[Len(log)].op = "raise"

\* C28: when an exception escapes the handling of a step, during the
\* discovery of the candidates or in the pricing loop, the call returns the
\* empty list and not the entries accumulated before it; a call that no
\* exception escapes returns the accumulated list.
C28_AllOrNothing ==
    (pc = "done" /\ Len(log) > 0) =>
        IF Escaped THEN result = <<>>
        ELSE result = available_variant_details

\* Two candidates priced and recorded, an exception at the third: the call
\* returns [].
C28_Witness ==
    /\ pc = "done"
    /\ Escaped
    /\ log[Len(log)].cand = 3
    /\ Len(available_variant_details) = 2
    /\ result = <<>>

\* C29: during one run of main at most one browser session is started; the
\* product collector and the review collector hold no driver or that of the
\* search collector, never one of their own; no session is quit before the
\* run ends, and once main has exited, on whatever path, a session that was
\* started has been quit exactly once and the search collector's driver is
\* None.
C29_OneSessionQuitOnce ==
    main.pc # "off" =>
        /\ Len(main.sessions) <= 1
        /\ \A k \in 1..Len(main.sessions) : main.sessions[k] = "searcher"
        /\ main.prod_scraper \in 0..Len(main.sessions)
        /\ main.review_scraper \in 0..Len(main.sessions)
        /\ main.pc # "exited" =>
              /\ main.quits = <<>>
              /\ main.searcher = Len(main.sessions)
        /\ main.pc = "exited" =>
              /\ main.searcher = 0
              /\ main.quits = [k \in 1..Len(main.sessions) |-> k]
              /\ main.exit \in {"nourls", "noproducts", "normal", "error",
                                 "interrupt"}
              /\ main.exit = "nourls" => main.sessions = <<>>

\* The driver failed to start for the first URL and started for the second;
\* the details of two products were collected with it, and the run was
\* interrupted while saving: one session, quit once.
C29_Witness ==
    /\ main.pc = "exited"
    /\ main.exit = "interrupt"
    /\ main.valid_urls = 2
    /\ main.sessions = <<"searcher">>
    /\ main.quits = <<1>>
    /\ main.searcher = 0
    /\ main.prod_scraper = 1
    /\ main.review_scraper = 1
    /\ Len(main.all_products) = 2
    /\ Len(main.visits) = 2

\* The products before index i have been processed one after the other, in
\* the order collected, and each carries the details its processing gave.
ProcessedUpTo(i) ==
    /\ Len(main.visits) = i - 1
    /\ \A k \in 1..(i - 1) :
          LET prod == main.all_products[k] IN
          /\ main.visits[k].index = k
          /\ prod.details # "unset"
          /\ prod.details = "record" <=>
                (Usable(prod.product_url) /\ main.visits[k].outcome = "returns")
          /\ ~Usable(prod.product_url) => prod.details = "empty"
          /\ main.visits[k].outcome = "raises" => prod.details = "empty"

\* C30: after the detail loop of main every collected product carries a
\* "details" key: the assembled record when scrape_product_details
\* returned, {} when the product has no usable product_url or the scraping
\* raised; a failure on one product does not keep any later product from
\* being processed, and the products are processed in the order collected.
C30_EveryProductHasDetails ==
    /\ main.pc = "details" => ProcessedUpTo(main.prod_i)
    /\ (main.pc = "save" \/ main.exit \in {"normal", "error"}) =>
          ProcessedUpTo(Len(main.all_products) + 1)

\* Four products from two searches: the scraping of the first raises, the
\* second has no usable address, and the fourth gets its record all the
\* same.
C30_Witness ==
    /\ main.pc = "save"
    /\ Len(main.all_products) = 4
    /\ main.all_products[1].details = "empty"
    /\ main.visits[1].outcome = "raises"
    /\ main.all_products[2].details = "empty"
    /\ ~Usable(main.all_products[2].product_url)
    /\ main.all_products[4].details = "record"
    /\ main.visits[4].outcome = "returns"

====
